---- MODULE Spec2Model ----
(***************************************************************************)
(* Session lifecycle, role resolution and audit logging of the Chreso      *)
(* tutorial portal: the AuthProvider context (useAuth), the LoginPage and  *)
(* LoginPageV2 views, the ProtectedRoute guard, the SUDO runtime guard and *)
(* the external auth service, profile store and audit sink they call.      *)
(*                                                                         *)
(* Every await in the source is a suspension point: the code before it and *)
(* the code after it are separate actions.  A React commit (guards, then   *)
(* the effects whose conditions hold) is part of the action that changed   *)
(* the state: Settle computes it.                                          *)
(***************************************************************************)
EXTENDS Integers, Sequences, FiniteSets, TLC

(***************************************************************************)
(* Bounds                                                                  *)
(***************************************************************************)
MaxLogins == 1      \* credential submissions (handleLogin / handlePasswordSubmit)
MaxEvents == 1      \* auth-state changes pushed by the auth service on its own
MaxQueue == 1       \* undelivered auth-state-change notifications
MaxPending == 2     \* profile lookups in flight, per identity
MaxSignUps == 1     \* profile-creating operations (signUp, magic-link verification)
MaxOps == 1         \* calls of useDashboard and of the tutorials, users and audit API
MaxEmailLen == 2    \* characters of an address passed to getEffectiveRole
MaxGuardCalls == 2  \* calls of assertNotSudoForPersistence

(***************************************************************************)
(* Values                                                                  *)
(***************************************************************************)
NoId == "none"
NoRole == "none"
Ids == {"u1", "u2"}
PERSISTABLE_ROLES == {"STAFF", "STUDENT", "ADMIN"}
SUDO_ROLE == "SUDO"
Role == PERSISTABLE_ROLES \cup {SUDO_ROLE}
NoProfile == [id |-> NoId, role |-> NoRole]
TutIds == {"t1", "t2"}
NoTut == [target_role |-> NoRole, created_by |-> NoId]
Tutorial(r, i) == [target_role |-> r, created_by |-> i]
Profile(i, r) == [id |-> i, role |-> r]

\* An email address is a sequence of characters.
NoEmail == << >>
Email(i) == IF i = "u1" THEN <<"R", "t", " ">> ELSE IF i = "u2" THEN <<"s">> ELSE NoEmail

toLowerCaseChar(c) == IF c = "R" THEN "r" ELSE IF c = "T" THEN "t" ELSE IF c = "S" THEN "s" ELSE c
toLowerCase(s) == [k \in 1..Len(s) |-> toLowerCaseChar(s[k])]

RECURSIVE trimStart(_)
trimStart(s) == IF s # << >> /\ Head(s) = " " THEN trimStart(Tail(s)) ELSE s
RECURSIVE trimEnd(_)
trimEnd(s) == IF s # << >> /\ s[Len(s)] = " " THEN trimEnd(SubSeq(s, 1, Len(s) - 1)) ELSE s
trim(s) == trimEnd(trimStart(s))

(***************************************************************************)
(* State                                                                   *)
(***************************************************************************)
VARIABLES
    \* external services
    authSess,       \* the auth service's current session: an identity id or NoId
    users,          \* public.users: id -> role, NoRole where there is no row
    auditLog,       \* public.audit_logs, in insertion order
    schemaV2,       \* auth_upgrade_v2.sql has been applied
    sudoEnabled,    \* FEATURE_FLAGS.SUDO_ADMIN
    sudoEmail,      \* VITE_SUDO_ADMIN_EMAIL, NoEmail when unset
    notifQ,         \* auth-state-change notifications not yet delivered
    lookups,        \* fetchUserProfile calls in flight, per id
    extEvents,      \* auth-state changes the service has pushed on its own
    lastNotif,      \* session carried by the last delivered notification
    \* AuthProvider
    session, user, isLoading, initPc,
    siPc, siId, siCaller, siResult,
    soPc, soUser, soTrace, soResult,
    \* router and views
    route, locFrom,
    lpError, lpLoading, loginAttempted, loginTimeoutRef, timerPending,
    orphanTimers, lpPc, hlStale,
    lpNavTarget,    \* where the last navigate() of a LoginPage effect went
    lpNavs,         \* navigate() calls of LoginPage effects since the last submit
    v2Error, v2Loading, v2Pc, v2Stale,
    logins,
    \* signUp and MagicLinkVerify
    signUps, suPc, suId, suRole, suResult,
    mlPc, mlId, mlRole, mlExisting, mlStatus,
    \* a guard rendered on its own: its props, the flag it reads, its decision
    gAllowed, rbacV2Enabled, prDecision, rbacDecision,
    \* the tutorial store, useDashboard, and one call of the tutorials,
    \* users or audit API at a time
    tutorials,      \* public.tutorials: id -> row, NoTut where there is no row
    dashTutorials,  \* useDashboard's tutorials state: the ids it holds
    dashError, dashLoading, dashPc,
    opPc, opKind, opTarget, opStatus,
    logsSeen,       \* how many rows the last fetchAuditLogs returned
    ops,
    \* getEffectiveRole called on its own: its arguments and its result
    argDbRole, argUserEmail, effectiveRole,
    \* assertNotSudoForPersistence called on its own
    anRole, anResult, anRpc, anCalls,
    \* sanitizeRoleForPersistence called on its own
    szRole, szResult,
    \* the magic-link feature: flag, users.email_verified, the send functions
    magicLinkEnabled,   \* FEATURE_FLAGS.ENABLE_MAGIC_LINK_AUTH
    emailVerified,      \* users.email_verified is true, per identity
    sendPc, sendFn, sendTag, sendResult,
    sendCalls,          \* calls of the send and verify-token functions
    otpCalls            \* signInWithOtp / verifyOtp calls the auth service got

backend == <<authSess, users, auditLog, schemaV2, sudoEnabled, sudoEmail,
             notifQ, lookups, extEvents, lastNotif>>
provider == <<session, user, isLoading, initPc, siPc, siId, siCaller,
              siResult, soPc, soUser, soTrace, soResult>>
views == <<route, locFrom, lpError, lpLoading, loginAttempted, loginTimeoutRef,
           timerPending, orphanTimers, lpPc, hlStale, lpNavTarget, lpNavs, v2Error,
           v2Loading, v2Pc, v2Stale, logins, signUps, suPc, suId, suRole, suResult,
           mlPc, mlId, mlRole, mlExisting, mlStatus>>
guardVars == <<gAllowed, rbacV2Enabled, prDecision, rbacDecision>>
storeVars == <<tutorials, dashTutorials, dashError, dashLoading, dashPc,
               opPc, opKind, opTarget, opStatus, logsSeen, ops>>
geVars == <<argDbRole, argUserEmail, effectiveRole>>
anVars == <<anRole, anResult, anRpc, anCalls>>
szVars == <<szRole, szResult>>
v2Vars == <<magicLinkEnabled, emailVerified, sendPc, sendFn, sendTag, sendResult,
            sendCalls, otpCalls>>
pureVars == <<guardVars, storeVars, geVars, anVars, szVars, v2Vars>>
vars == <<backend, provider, views, pureVars>>

(***************************************************************************)
(* sudoGuard.ts: the SUDO runtime guard                                    *)
(***************************************************************************)
\* !role: null, undefined (NoRole) and the empty string.
Falsy(role) == role = NoRole \/ role = ""

\* A check that lets every non-empty string through.
isRolePersistable_Any(role) == ~Falsy(role)

isRolePersistable(role) == ~Falsy(role) /\ role \in PERSISTABLE_ROLES

sanitizeRoleForPersistence(role) ==
    IF Falsy(role) THEN NoRole
    ELSE IF role = SUDO_ROLE THEN NoRole
    ELSE IF isRolePersistable(role) THEN role
    ELSE NoRole

\* A comparison of the two addresses as they are written.
isSudoSession_Exact(enabled, sudoAddr, userEmail) ==
    enabled /\ sudoAddr # NoEmail /\ userEmail = sudoAddr

isSudoSession(enabled, sudoAddr, userEmail) ==
    IF ~enabled THEN FALSE
    ELSE IF sudoAddr = NoEmail \/ userEmail = NoEmail THEN FALSE
    ELSE trim(toLowerCase(userEmail)) = trim(toLowerCase(sudoAddr))

getEffectiveRole(enabled, sudoAddr, dbRole, userEmail) ==
    IF isSudoSession(enabled, sudoAddr, userEmail) THEN SUDO_ROLE ELSE dbRole

(***************************************************************************)
(* The database: schema.sql and auth_upgrade_v2.sql                        *)
(***************************************************************************)
\* CHECK (role IN (...)) on public.users, as the applied migrations leave it.
users_role_check(v2, role) ==
    IF v2 THEN role \in {"STAFF", "STUDENT", "ADMIN", "SUDO"}
    ELSE role \in {"STAFF", "STUDENT", "ADMIN"}

\* Row-level security of INSERT on public.users for the caller auth.uid().
users_insert_policy(v2, store, uid) ==
    /\ uid # NoId
    /\ \/ store[uid] = "ADMIN"
       \/ v2 /\ store[uid] = "SUDO"

\* The row public.log_action(p_action) inserts for the caller auth.uid().
log_action(store, uid, action) ==
    [user_id |-> uid,
     user_role |-> IF uid # NoId /\ store[uid] # NoRole THEN store[uid] ELSE "UNKNOWN",
     action |-> action]

\* Outcomes of supabase.rpc('log_action'): a row, an error result, a rejection.
RpcOutcomes == {"ok", "error", "throw"}

\* audit_logs.user_id REFERENCES public.users(id): a row of an identity
\* without a profile is refused, a row without an identity is not.
audit_logs_user_id_fkey(store, uid) == uid = NoId \/ store[uid] # NoRole

\* An append that keeps the new row alone.
AppendLog_Prune(log, store, uid, action, outcome) ==
    IF outcome = "ok" /\ audit_logs_user_id_fkey(store, uid)
    THEN <<log_action(store, uid, action)>>
    ELSE log

\* The audit log after one append attempt with the given outcome; an append
\* the foreign key refuses comes back as an error result.
AppendLog(log, store, uid, action, outcome) ==
    IF outcome = "ok" /\ audit_logs_user_id_fkey(store, uid)
    THEN Append(log, log_action(store, uid, action))
    ELSE log

(***************************************************************************)
(* useAuth: what the context value exposes                                 *)
(***************************************************************************)
isAuthenticated(c) == c.session # NoId /\ c.user # NoProfile
AuthRole(c) == c.user.role

(***************************************************************************)
(* Router: ProtectedRoute and the routes of App.tsx                        *)
(***************************************************************************)
NoPath == "none"
ProtectedPaths == {"/dashboard", "/admin"}
allowedRoles(path) == IF path = "/admin" THEN {"ADMIN", "SUDO"} ELSE {}

ProtectedRoute(loading, authenticated, role, allowed) ==
    IF loading THEN "loading"
    ELSE IF ~authenticated THEN "login"
    ELSE IF allowed # {} /\ (role = NoRole \/ role \notin allowed) THEN "denied"
    ELSE "render"

\* RBACGuard: "denied" is the redirect to fallbackPath with accessDenied.
RBACGuard(loading, authenticated, role, allowed, rbacV2) ==
    IF loading THEN "loading"
    ELSE IF ~authenticated THEN "login"
    ELSE IF ~rbacV2 THEN "render"
    ELSE IF role = NoRole THEN "denied"
    ELSE IF role = "SUDO" THEN "render"
    ELSE IF role \in allowed THEN "render"
    ELSE IF role = "ADMIN" /\ allowed \cap {"STAFF", "STUDENT", "ADMIN"} # {} THEN "render"
    ELSE "denied"

\* clearTimeout(loginTimeoutRef.current); loginTimeoutRef.current = null
ClearLoginTimer(c) ==
    IF c.loginTimeoutRef
    THEN [c EXCEPT !.timerPending = FALSE, !.loginTimeoutRef = FALSE]
    ELSE c

\* LoginPage leaves the tree: its cleanup effect runs, its state is dropped,
\* a handleLogin still awaiting signIn goes on in the dead instance.
UnmountLoginPage(c) ==
    LET cleaned == IF c.loginTimeoutRef THEN [c EXCEPT !.timerPending = FALSE] ELSE c
    IN  [cleaned EXCEPT !.orphanTimers = IF cleaned.timerPending THEN @ + 1 ELSE @,
                        !.timerPending = FALSE,
                        !.loginTimeoutRef = FALSE,
                        !.lpError = "",
                        !.lpLoading = FALSE,
                        !.loginAttempted = FALSE,
                        !.hlStale = (c.lpPc # "idle")]

UnmountLoginPageV2(c) ==
    [c EXCEPT !.v2Error = "", !.v2Loading = FALSE, !.v2Stale = (c.v2Pc # "idle")]

Unmount(c) ==
    IF c.route = "/login" THEN UnmountLoginPage(c)
    ELSE IF c.route = "/auth/v2/login" THEN UnmountLoginPageV2(c)
    ELSE c

\* navigate(target, {state: {from}}) or <Navigate to=target state=...>
NavigateTo(c, target, from) ==
    LET left == IF c.route = target THEN c ELSE Unmount(c)
    IN  [left EXCEPT !.route = target, !.locFrom = from]

\* location.state?.from?.pathname || '/dashboard'
FromPath(c) == IF c.locFrom = NoPath THEN "/dashboard" ELSE c.locFrom

\* The effects of LoginPage, in source order, for one commit.  When the
\* post-login effect and the already-authenticated effect both run, both call
\* navigate(..., {replace: true}) and the location the second one names stays.
LoginPageEffects(c) ==
    LET authd == isAuthenticated(c) /\ AuthRole(c) # NoRole
        postLogin == c.loginAttempted /\ authd
        notFound == c.loginAttempted /\ ~c.isLoading /\ c.session # NoId
                    /\ ~isAuthenticated(c)
        c1 == IF postLogin
              THEN [ClearLoginTimer(c) EXCEPT
                      !.lpLoading = FALSE,
                      !.lpNavTarget = IF AuthRole(c) = "ADMIN" THEN "/admin"
                                      ELSE FromPath(c),
                      !.lpNavs = @ + 1]
              ELSE c
        c2 == IF notFound
              THEN [ClearLoginTimer(c1) EXCEPT !.lpError = "noprofile",
                                               !.lpLoading = FALSE,
                                               !.loginAttempted = FALSE]
              ELSE c1
        target == IF AuthRole(c) = "ADMIN" THEN "/admin" ELSE "/dashboard"
    IN  IF authd
        THEN NavigateTo([c2 EXCEPT !.lpNavTarget = target, !.lpNavs = @ + 1],
                        target, NoPath)
        ELSE c2

\* The redirect effect of LoginPageV2.
LoginPageV2Effects(c) ==
    IF isAuthenticated(c) /\ AuthRole(c) # NoRole
    THEN NavigateTo(c, IF AuthRole(c) \in {"ADMIN", "SUDO"} THEN "/admin"
                       ELSE "/dashboard", NoPath)
    ELSE c

\* One render of the current route followed by its effects.
Pass(c) ==
    IF c.route \in ProtectedPaths
    THEN LET d == ProtectedRoute(c.isLoading, isAuthenticated(c), AuthRole(c),
                                 allowedRoles(c.route))
         IN  IF d = "login" THEN NavigateTo(c, "/login", c.route)
             ELSE IF d = "denied" THEN NavigateTo(c, "/dashboard", NoPath)
             ELSE c
    ELSE IF c.route = "/login" THEN LoginPageEffects(c)
    ELSE IF c.route = "/auth/v2/login" THEN LoginPageV2Effects(c)
    ELSE c

\* Renders and effects until nothing changes.
Settle(c) == Pass(Pass(Pass(Pass(c))))

\* The client state as one record.
Client ==
    [session |-> session, user |-> user, isLoading |-> isLoading,
     route |-> route, locFrom |-> locFrom, lpError |-> lpError,
     lpLoading |-> lpLoading, loginAttempted |-> loginAttempted,
     loginTimeoutRef |-> loginTimeoutRef, timerPending |-> timerPending,
     orphanTimers |-> orphanTimers, lpPc |-> lpPc, hlStale |-> hlStale,
     v2Error |-> v2Error, v2Loading |-> v2Loading, v2Pc |-> v2Pc,
     v2Stale |-> v2Stale, lpNavTarget |-> lpNavTarget, lpNavs |-> lpNavs]

\* The next client state is c after React has committed it.
Commit(c) ==
    LET s == Settle(c)
    IN  /\ session' = s.session
        /\ user' = s.user
        /\ isLoading' = s.isLoading
        /\ route' = s.route
        /\ locFrom' = s.locFrom
        /\ lpError' = s.lpError
        /\ lpLoading' = s.lpLoading
        /\ loginAttempted' = s.loginAttempted
        /\ loginTimeoutRef' = s.loginTimeoutRef
        /\ timerPending' = s.timerPending
        /\ orphanTimers' = s.orphanTimers
        /\ lpPc' = s.lpPc
        /\ hlStale' = s.hlStale
        /\ v2Error' = s.v2Error
        /\ v2Loading' = s.v2Loading
        /\ v2Pc' = s.v2Pc
        /\ v2Stale' = s.v2Stale
        /\ lpNavTarget' = s.lpNavTarget
        /\ lpNavs' = s.lpNavs

\* The variables Commit assigns.
client == <<session, user, isLoading, route, locFrom, lpError, lpLoading,
            loginAttempted, loginTimeoutRef, timerPending, orphanTimers, lpPc,
            hlStale, lpNavTarget, lpNavs, v2Error, v2Loading, v2Pc, v2Stale>>

config == <<schemaV2, sudoEnabled, sudoEmail>>
siVars == <<siPc, siId, siCaller, siResult>>
soVars == <<soPc, soUser, soTrace, soResult>>
suVars == <<signUps, suPc, suId, suRole, suResult>>
mlVars == <<mlPc, mlId, mlRole, mlExisting, mlStatus>>

(***************************************************************************)
(* Initial state: the page has just loaded, getSession() is pending, the    *)
(* store holds a profile for u1 and none for u2.  Each scenario below      *)
(* fixes the first route, the stored session and the configuration.        *)
(***************************************************************************)
UserStores == {[i \in Ids |-> IF i = "u1" THEN r ELSE NoRole] : r \in {"STAFF", "ADMIN"}}

\* Nothing has been submitted and no view has run an effect.
InitViews(path) ==
    /\ siPc = "idle" /\ siId = NoId /\ siCaller = "none"
    /\ siResult = "none"
    /\ soPc = "idle" /\ soUser = NoProfile /\ soTrace = << >> /\ soResult = "none"
    /\ route = path /\ locFrom = NoPath
    /\ lpError = "" /\ lpLoading = FALSE /\ loginAttempted = FALSE
    /\ loginTimeoutRef = FALSE /\ timerPending = FALSE /\ orphanTimers = 0
    /\ lpPc = "idle" /\ hlStale = FALSE /\ lpNavTarget = NoPath /\ lpNavs = 0
    /\ v2Error = "" /\ v2Loading = FALSE /\ v2Pc = "idle" /\ v2Stale = FALSE
    /\ logins = 0
    /\ signUps = 0 /\ suPc = "idle" /\ suId = NoId /\ suRole = NoRole
    /\ suResult = "none"
    /\ mlPc = "idle" /\ mlId = NoId /\ mlRole = NoRole /\ mlExisting = NoProfile
    /\ mlStatus = "verifying"

InitClient(path) ==
    /\ session = NoId
    /\ user = NoProfile
    /\ isLoading = TRUE
    /\ initPc = "pending"
    /\ InitViews(path)

\* The tutorial store is empty, the dashboard has not fetched, no API call
\* is in flight and neither sudoGuard function is called on its own.
InitStoreIdle ==
    /\ tutorials = [t \in TutIds |-> NoTut]
    /\ dashTutorials = {} /\ dashError = FALSE /\ dashLoading = TRUE
    /\ dashPc = "idle"
    /\ opPc = "idle" /\ opKind = "none" /\ opTarget = "none"
    /\ opStatus = "none" /\ logsSeen = 0 /\ ops = 0

InitGeIdle ==
    /\ argDbRole = NoRole /\ argUserEmail = NoEmail /\ effectiveRole = "unset"

InitAnIdle ==
    /\ anRole = NoRole /\ anResult = "none" /\ anRpc = 0 /\ anCalls = 0

InitSzIdle == szRole = NoRole /\ szResult = "unset"

\* No send function has been called, no address is verified.
InitSendIdle ==
    /\ emailVerified = [i \in Ids |-> FALSE]
    /\ sendPc = "idle" /\ sendFn = "none" /\ sendTag = "none"
    /\ sendResult = "none" /\ sendCalls = 0 /\ otpCalls = 0

\* ENABLE_MAGIC_LINK_AUTH: import.meta.env... === 'true', false by default.
InitFlagsDefault == magicLinkEnabled = FALSE

InitIdle ==
    /\ InitStoreIdle /\ InitGeIdle /\ InitAnIdle /\ InitSzIdle
    /\ InitSendIdle /\ InitFlagsDefault

\* No guard is rendered on its own.
InitPure ==
    /\ gAllowed = {} /\ rbacV2Enabled = FALSE
    /\ prDecision = "none" /\ rbacDecision = "none"
    /\ InitIdle

InitQueues ==
    /\ auditLog = << >>
    /\ notifQ = << >>
    /\ lookups = [i \in Ids |-> 0]
    /\ extEvents = 0
    /\ lastNotif = "never"

(***************************************************************************)
(* AuthProvider: the init effect                                           *)
(***************************************************************************)
\* fetchUserProfile(userId) resolves: the row of public.users, null on error.
fetchUserProfile(store, userId, failed) ==
    IF failed \/ store[userId] = NoRole THEN NoProfile
    ELSE Profile(userId, store[userId])

\* getSession reporting no session with the loading flag left set.
initSessionNone_StillLoading(c) == [c EXCEPT !.session = NoId]

\* The getSession continuation when there is no session.
initSessionNone(c) == [c EXCEPT !.session = NoId, !.isLoading = FALSE]

\* supabase.auth.getSession().then(...) up to its await.
InitSession ==
    /\ initPc = "pending"
    /\ initPc' = "done"
    /\ IF authSess # NoId
       THEN /\ lookups[authSess] < MaxPending
            /\ lookups' = [lookups EXCEPT ![authSess] = @ + 1]
            /\ Commit([Client EXCEPT !.session = authSess])
       ELSE /\ lookups' = lookups
            /\ Commit(initSessionNone(Client))
    /\ UNCHANGED <<authSess, users, auditLog, config, notifQ, extEvents, lastNotif,
                   siVars, soVars, logins, suVars, mlVars>>
    /\ UNCHANGED pureVars

\* The onAuthStateChange callback up to its await.
DeliverNotification ==
    /\ notifQ # << >>
    /\ LET s == Head(notifQ)
       IN  /\ notifQ' = Tail(notifQ)
           /\ lastNotif' = s
           /\ IF s # NoId
              THEN /\ lookups[s] < MaxPending
                   /\ lookups' = [lookups EXCEPT ![s] = @ + 1]
                   /\ Commit([Client EXCEPT !.session = s])
              ELSE /\ lookups' = lookups
                   /\ Commit([Client EXCEPT !.session = NoId, !.user = NoProfile,
                                            !.isLoading = FALSE])
    /\ UNCHANGED <<authSess, users, auditLog, config, extEvents, initPc,
                   siVars, soVars, logins, suVars, mlVars>>
    /\ UNCHANGED pureVars

\* What follows `await fetchUserProfile(...)` in both of them.
LookupDone(i, failed) ==
    /\ lookups[i] > 0
    /\ lookups' = [lookups EXCEPT ![i] = @ - 1]
    /\ Commit([Client EXCEPT !.user = fetchUserProfile(users, i, failed),
                             !.isLoading = FALSE])
    /\ UNCHANGED <<authSess, users, auditLog, config, notifQ, extEvents, lastNotif,
                   initPc, siVars, soVars, logins, suVars, mlVars>>
    /\ UNCHANGED pureVars

(***************************************************************************)
(* The auth service acting on its own                                      *)
(***************************************************************************)
TokenRefreshed ==
    /\ authSess # NoId
    /\ extEvents < MaxEvents
    /\ Len(notifQ) < MaxQueue
    /\ extEvents' = extEvents + 1
    /\ notifQ' = Append(notifQ, authSess)
    /\ UNCHANGED <<authSess, users, auditLog, config, lookups, lastNotif, provider,
                   views>>
    /\ UNCHANGED pureVars

SessionInvalidated ==
    /\ authSess # NoId
    /\ extEvents < MaxEvents
    /\ Len(notifQ) < MaxQueue
    /\ extEvents' = extEvents + 1
    /\ authSess' = NoId
    /\ notifQ' = Append(notifQ, NoId)
    /\ UNCHANGED <<users, auditLog, config, lookups, lastNotif, provider, views>>
    /\ UNCHANGED pureVars

(***************************************************************************)
(* AuthProvider.signIn and the two views that call it                      *)
(***************************************************************************)
\* LoginPage.handleLogin after `await signIn(...)`; the instance that made
\* the call may be gone, and then its state updates are dropped.
handleLoginResume(c, result) ==
    IF result = "error"
    THEN IF c.hlStale THEN [c EXCEPT !.lpPc = "idle", !.hlStale = FALSE]
         ELSE [c EXCEPT !.lpError = "cred", !.lpLoading = FALSE, !.lpPc = "idle"]
    ELSE IF result = "ok"
    THEN IF c.hlStale
         THEN [c EXCEPT !.orphanTimers = @ + 1, !.lpPc = "idle", !.hlStale = FALSE]
         ELSE [c EXCEPT !.loginAttempted = TRUE, !.loginTimeoutRef = TRUE,
                        !.timerPending = TRUE, !.lpPc = "idle"]
    ELSE [c EXCEPT !.lpPc = "idle", !.hlStale = FALSE]

\* LoginPageV2.handlePasswordSubmit after `await signIn(...)`.
handlePasswordSubmitResume(c, result) ==
    IF result = "error"
    THEN IF c.v2Stale THEN [c EXCEPT !.v2Pc = "idle", !.v2Stale = FALSE]
         ELSE [c EXCEPT !.v2Error = "cred", !.v2Loading = FALSE, !.v2Pc = "idle"]
    ELSE IF result = "ok"
    THEN IF c.v2Stale THEN [c EXCEPT !.v2Pc = "idle", !.v2Stale = FALSE]
         ELSE [c EXCEPT !.v2Loading = FALSE, !.v2Pc = "idle"]
    ELSE [c EXCEPT !.v2Pc = "idle", !.v2Stale = FALSE]

CallerResume(caller, c, result) ==
    IF caller = "LoginPage" THEN handleLoginResume(c, result)
    ELSE handlePasswordSubmitResume(c, result)

\* signIn returning the error with the loading flag left set.
signInRejected_StillLoading(c) == c

\* signIn once signInWithPassword has answered with an error.
signInRejected(c) == [c EXCEPT !.isLoading = FALSE]

\* signIn once logAction('LOGIN') has returned.
signInLogged(c) == [c EXCEPT !.isLoading = FALSE]

\* handleLogin up to `await signIn`, signIn up to `await signInWithPassword`.
handleLogin(i) ==
    /\ route = "/login"
    /\ ~lpLoading
    /\ lpPc = "idle" /\ siPc = "idle"
    /\ logins < MaxLogins
    /\ logins' = logins + 1
    /\ siPc' = "awaitAuth" /\ siId' = i /\ siCaller' = "LoginPage"
    /\ siResult' = "none"
    /\ Commit([Client EXCEPT !.lpError = "", !.lpLoading = TRUE, !.lpNavs = 0,
                             !.lpPc = "awaitSignIn", !.isLoading = TRUE])
    /\ UNCHANGED <<backend, initPc, soVars, suVars, mlVars>>
    /\ UNCHANGED pureVars

handlePasswordSubmit(i) ==
    /\ route = "/auth/v2/login"
    /\ ~v2Loading
    /\ v2Pc = "idle" /\ siPc = "idle"
    /\ logins < MaxLogins
    /\ logins' = logins + 1
    /\ siPc' = "awaitAuth" /\ siId' = i /\ siCaller' = "LoginPageV2"
    /\ siResult' = "none"
    /\ Commit([Client EXCEPT !.v2Error = "", !.v2Loading = TRUE,
                             !.v2Pc = "awaitSignIn", !.isLoading = TRUE])
    /\ UNCHANGED <<backend, initPc, soVars, suVars, mlVars>>
    /\ UNCHANGED pureVars

\* signInWithPassword answers with an error: signIn returns it.
SignInAuthError ==
    /\ siPc = "awaitAuth"
    /\ siResult' = "error"
    /\ siPc' = "idle"
    /\ Commit(CallerResume(siCaller, signInRejected(Client), "error"))
    /\ UNCHANGED <<backend, initPc, siId, siCaller, soVars, logins, suVars, mlVars>>
    /\ UNCHANGED pureVars

\* signInWithPassword accepts: the service holds the session and notifies;
\* signIn goes on to logAction('LOGIN').
SignInAuthOk ==
    /\ siPc = "awaitAuth"
    /\ Len(notifQ) < MaxQueue
    /\ siPc' = "awaitLog"
    /\ authSess' = siId
    /\ notifQ' = Append(notifQ, siId)
    /\ UNCHANGED <<users, auditLog, config, lookups, extEvents, lastNotif,
                   session, user, isLoading, initPc, siId, siCaller, siResult,
                   soVars, views>>
    /\ UNCHANGED pureVars

\* A sign-in that records its event twice.
signInLogAction_Twice(log, store, uid, outcome) ==
    AppendLog(AppendLog(log, store, uid, "LOGIN", outcome),
              store, uid, "LOGIN", outcome)

\* signIn's single logAction('LOGIN', ...) call.
signInLogAction(log, store, uid, outcome) ==
    AppendLog(log, store, uid, "LOGIN", outcome)

\* logAction('LOGIN') is over, with a row, an error result or a rejection.
SignInLogDone(outcome) ==
    /\ siPc = "awaitLog"
    /\ siPc' = "idle"
    /\ auditLog' = signInLogAction(auditLog, users, siId, outcome)
    /\ IF outcome = "throw"
       THEN /\ siResult' = "threw"
            /\ Commit(CallerResume(siCaller, Client, "threw"))
       ELSE /\ siResult' = "ok"
            /\ Commit(CallerResume(siCaller, signInLogged(Client), "ok"))
    /\ UNCHANGED <<authSess, users, config, notifQ, lookups, extEvents, lastNotif,
                   initPc, siId, siCaller, soVars, logins, suVars, mlVars>>
    /\ UNCHANGED pureVars

\* The 10 s timer of handleLogin fires.
LoginTimeout ==
    /\ timerPending
    /\ Commit([Client EXCEPT !.timerPending = FALSE, !.lpError = "timeout",
                             !.lpLoading = FALSE, !.loginAttempted = FALSE])
    /\ UNCHANGED <<backend, initPc, siVars, soVars, logins, suVars, mlVars>>
    /\ UNCHANGED pureVars

\* A timer set by an instance of LoginPage that is gone fires: no effect.
OrphanTimeout ==
    /\ orphanTimers > 0
    /\ Commit([Client EXCEPT !.orphanTimers = @ - 1])
    /\ UNCHANGED <<backend, initPc, siVars, soVars, logins, suVars, mlVars>>
    /\ UNCHANGED pureVars

(***************************************************************************)
(* AuthProvider.signOut, called by handleLogout of Dashboard / AdminLayout *)
(***************************************************************************)
\* signOut dropping the profile and keeping the session.
signOutClear_KeepSession(c) == [c EXCEPT !.user = NoProfile]

\* What signOut does once supabase.auth.signOut() has returned.
signOutClear(c) == [c EXCEPT !.user = NoProfile, !.session = NoId]

\* handleLogout: signOut up to its first await.
SignOutCall ==
    /\ route \in ProtectedPaths
    /\ ~isLoading
    /\ soPc = "idle"
    /\ soUser' = user
    /\ soResult' = "none"
    /\ IF user # NoProfile
       THEN soPc' = "awaitLog" /\ soTrace' = <<"log_action">>
       ELSE soPc' = "awaitAuth" /\ soTrace' = <<"auth.signOut">>
    /\ UNCHANGED <<backend, session, user, isLoading, initPc, siVars, views>>
    /\ UNCHANGED pureVars

\* logAction('LOGOUT') is over.
SignOutLogDone(outcome) ==
    /\ soPc = "awaitLog"
    /\ auditLog' = AppendLog(auditLog, users, authSess, "LOGOUT", outcome)
    /\ IF outcome = "throw"
       THEN soPc' = "idle" /\ soResult' = "threw" /\ soTrace' = soTrace
       ELSE soPc' = "awaitAuth" /\ soResult' = soResult
            /\ soTrace' = Append(soTrace, "auth.signOut")
    /\ UNCHANGED <<authSess, users, config, notifQ, lookups, extEvents, lastNotif,
                   session, user, isLoading, initPc, siVars, soUser, views>>
    /\ UNCHANGED pureVars

\* supabase.auth.signOut() is over; signOut clears the session and
\* handleLogout navigates to '/', which redirects to /login.
SignOutAuthDone(ok) ==
    /\ soPc = "awaitAuth"
    /\ soPc' = "idle"
    /\ soResult' = "done"
    /\ soTrace' = Append(soTrace, "clear")
    /\ IF ok /\ authSess # NoId
       THEN /\ Len(notifQ) < MaxQueue
            /\ authSess' = NoId
            /\ notifQ' = Append(notifQ, NoId)
       ELSE UNCHANGED <<authSess, notifQ>>
    /\ Commit(NavigateTo(signOutClear(Client), "/login", NoPath))
    /\ UNCHANGED <<users, auditLog, config, lookups, extEvents, lastNotif,
                   initPc, siVars, soUser, logins, suVars, mlVars>>
    /\ UNCHANGED pureVars

(***************************************************************************)
(* Writers of public.users: AuthProvider.signUp and MagicLinkVerify        *)
(***************************************************************************)
\* Role values a caller or a URL may carry.
RoleInputs == Role \cup {"GUEST"}

\* INSERT INTO public.users (id, role, ...) issued by the session uid: the row
\* goes in when the insert policy, the role constraint and the primary key
\* all accept it.
users_insert_accepted(v2, store, uid, newId, role) ==
    /\ users_insert_policy(v2, store, uid)
    /\ users_role_check(v2, role)
    /\ store[newId] = NoRole

users_insert(v2, store, uid, newId, role) ==
    IF users_insert_accepted(v2, store, uid, newId, role)
    THEN [store EXCEPT ![newId] = role]
    ELSE store

\* signUp(email, password, userData) up to `await supabase.auth.signUp`.
SignUpCall(i, r) ==
    /\ suPc = "idle"
    /\ signUps < MaxSignUps
    /\ signUps' = signUps + 1
    /\ suPc' = "awaitAuth" /\ suId' = i /\ suRole' = r /\ suResult' = "none"
    /\ Commit([Client EXCEPT !.isLoading = TRUE])
    /\ UNCHANGED <<backend, initPc, siVars, soVars, logins, mlVars>>
    /\ UNCHANGED pureVars

\* auth.signUp answers: an error, no user, a user awaiting confirmation (the
\* caller's session stays), or a user with a session of its own.
SignUpAuthDone(outcome) ==
    /\ suPc = "awaitAuth"
    /\ IF outcome \in {"error", "nouser"}
       THEN /\ suPc' = "idle" /\ suResult' = "error"
            /\ Commit([Client EXCEPT !.isLoading = FALSE])
            /\ UNCHANGED <<authSess, notifQ>>
       ELSE /\ suPc' = "awaitInsert" /\ suResult' = suResult
            /\ UNCHANGED client
            /\ IF outcome = "session"
               THEN /\ Len(notifQ) < MaxQueue
                    /\ authSess' = suId
                    /\ notifQ' = Append(notifQ, suId)
               ELSE UNCHANGED <<authSess, notifQ>>
    /\ UNCHANGED <<users, auditLog, config, lookups, extEvents, lastNotif, initPc,
                   siVars, soVars, logins, signUps, suId, suRole, mlVars>>
    /\ UNCHANGED pureVars

\* The insert into public.users has answered.
SignUpInsertDone ==
    /\ suPc = "awaitInsert"
    /\ users' = users_insert(schemaV2, users, authSess, suId, suRole)
    /\ IF users_insert_accepted(schemaV2, users, authSess, suId, suRole)
       THEN /\ suPc' = "awaitLog" /\ suResult' = suResult
            /\ UNCHANGED client
       ELSE /\ suPc' = "idle" /\ suResult' = "error"
            /\ Commit([Client EXCEPT !.isLoading = FALSE])
    /\ UNCHANGED <<authSess, auditLog, config, notifQ, lookups, extEvents,
                   lastNotif, initPc, siVars, soVars, logins, signUps, suId,
                   suRole, mlVars>>
    /\ UNCHANGED pureVars

\* logAction('SIGNUP') is over.
SignUpLogDone(outcome) ==
    /\ suPc = "awaitLog"
    /\ suPc' = "idle"
    /\ auditLog' = AppendLog(auditLog, users, authSess, "SIGNUP", outcome)
    /\ IF outcome = "throw"
       THEN /\ suResult' = "threw"
            /\ UNCHANGED client
       ELSE /\ suResult' = "ok"
            /\ Commit([Client EXCEPT !.isLoading = FALSE])
    /\ UNCHANGED <<authSess, users, config, notifQ, lookups, extEvents, lastNotif,
                   initPc, siVars, soVars, logins, signUps, suId, suRole, mlVars>>
    /\ UNCHANGED pureVars

\* The browser opens /auth/v2/verify?role=r from a magic link of identity i;
\* a valid link gives the auth service a session.  handleVerification starts.
\* The page is loaded in place of the login form, whose calls are over.
MagicLinkOpen(i, r, valid) ==
    /\ mlPc = "idle" /\ sendPc = "idle"
    /\ signUps < MaxSignUps
    /\ signUps' = signUps + 1
    /\ mlPc' = "awaitSession" /\ mlRole' = r /\ mlId' = NoId
    /\ mlExisting' = NoProfile /\ mlStatus' = "verifying"
    /\ IF valid
       THEN /\ Len(notifQ) < MaxQueue
            /\ authSess' = i
            /\ notifQ' = Append(notifQ, i)
       ELSE UNCHANGED <<authSess, notifQ>>
    /\ UNCHANGED <<users, auditLog, config, lookups, extEvents, lastNotif,
                   client, initPc, siVars, soVars, logins, suPc, suId, suRole,
                   suResult>>
    /\ UNCHANGED pureVars

\* handleVerification after `await supabase.auth.getSession()`.
MagicLinkSession(failed) ==
    /\ mlPc = "awaitSession"
    /\ IF failed \/ authSess = NoId
       THEN mlPc' = "idle" /\ mlStatus' = "error" /\ mlId' = mlId
       ELSE mlPc' = "awaitLookup" /\ mlStatus' = mlStatus /\ mlId' = authSess
    /\ UNCHANGED <<backend, client, initPc, siVars, soVars, logins,
                   suVars, mlRole, mlExisting>>
    /\ UNCHANGED pureVars

\* existingUser.email_verified as the select returns it: the column exists
\* only once auth_upgrade_v2.sql is applied.
email_verified(v2, verified, id) == v2 /\ verified[id]

\* Row-level security of UPDATE on public.users for the caller auth.uid().
users_update_policy(v2, store, uid) ==
    /\ uid # NoId
    /\ \/ store[uid] = "ADMIN"
       \/ v2 /\ store[uid] = "SUDO"

\* handleVerification after the select of the identity's own row.
MagicLinkLookup(failed) ==
    /\ mlPc = "awaitLookup"
    /\ mlExisting' = fetchUserProfile(users, mlId, failed)
    /\ IF mlExisting' = NoProfile
       THEN mlPc' = "awaitInsert" /\ mlStatus' = "creating-profile"
       ELSE IF ~email_verified(schemaV2, emailVerified, mlId)
       THEN mlPc' = "awaitUpdate" /\ mlStatus' = mlStatus
       ELSE mlPc' = "awaitLog" /\ mlStatus' = mlStatus
    /\ UNCHANGED <<backend, client, initPc, siVars, soVars, logins,
                   suVars, mlId, mlRole>>
    /\ UNCHANGED pureVars

\* const roleToAssign: Role = intendedRole || 'STUDENT'
roleToAssign(intendedRole) == IF intendedRole = NoRole THEN "STUDENT" ELSE intendedRole

\* handleVerification after the insert of the new profile.
MagicLinkInsert ==
    /\ mlPc = "awaitInsert"
    /\ users' = users_insert(schemaV2, users, authSess, mlId, roleToAssign(mlRole))
    /\ IF users_insert_accepted(schemaV2, users, authSess, mlId, roleToAssign(mlRole))
       THEN mlPc' = "awaitLog" /\ mlStatus' = mlStatus
       ELSE mlPc' = "idle" /\ mlStatus' = "error"
    /\ UNCHANGED <<authSess, auditLog, config, notifQ, lookups, extEvents,
                   lastNotif, client, initPc, siVars, soVars, logins,
                   suVars, mlId, mlRole, mlExisting>>
    /\ UNCHANGED pureVars

\* handleVerification after update({email_verified: true, auth_provider:
\* 'magic_link'}) of the existing row; its result is not looked at.
MagicLinkUpdate(failed) ==
    /\ mlPc = "awaitUpdate"
    /\ mlPc' = "awaitLog"
    /\ emailVerified' =
          IF ~failed /\ schemaV2 /\ users_update_policy(schemaV2, users, authSess)
          THEN [emailVerified EXCEPT ![mlId] = TRUE]
          ELSE emailVerified
    /\ UNCHANGED <<backend, client, initPc, siVars, soVars, logins, suVars,
                   mlId, mlRole, mlExisting, mlStatus>>
    /\ UNCHANGED <<guardVars, storeVars, geVars, anVars, szVars, magicLinkEnabled,
                   sendPc, sendFn, sendTag, sendResult, sendCalls, otpCalls>>

\* logAction('MAGIC_LINK_SIGNUP' | 'MAGIC_LINK_LOGIN') is over; a rejection
\* lands in the catch block of handleVerification.
MagicLinkLogDone(outcome) ==
    /\ mlPc = "awaitLog"
    /\ mlPc' = "idle"
    /\ auditLog' = AppendLog(auditLog, users, authSess,
                             IF mlExisting = NoProfile THEN "MAGIC_LINK_SIGNUP"
                             ELSE "MAGIC_LINK_LOGIN", outcome)
    /\ mlStatus' = IF outcome = "throw" THEN "error" ELSE "success"
    /\ UNCHANGED <<authSess, users, config, notifQ, lookups, extEvents, lastNotif,
                   client, initPc, siVars, soVars, logins, suVars, mlId,
                   mlRole, mlExisting>>
    /\ UNCHANGED pureVars

(***************************************************************************)
(* The functions that send a magic link or verify its token                *)
(***************************************************************************)
SendFns == {"sendMagicLink", "sendStudentMagicLink", "sendStaffMagicLink",
            "verifyMagicLinkToken"}

\* sendStudentMagicLink and sendStaffMagicLink record what they did.
SendLogs(fn) == fn \in {"sendStudentMagicLink", "sendStaffMagicLink"}

\* isFeatureEnabled('ENABLE_MAGIC_LINK_AUTH'), the first test of each function.
flagGate(enabled) == enabled

\* One of the four functions is called from the login form; valid says
\* whether the address passes the function's own test (format, staff domain).
sendMagicLinkCall(fn, valid) ==
    /\ sendPc = "idle" /\ mlPc = "idle"
    /\ sendCalls < MaxSignUps
    /\ sendCalls' = sendCalls + 1
    /\ sendFn' = fn
    /\ IF ~flagGate(magicLinkEnabled)
       THEN /\ sendPc' = "idle" /\ sendResult' = "unavailable"
            /\ UNCHANGED <<sendTag, otpCalls>>
       ELSE IF ~valid /\ fn = "sendStaffMagicLink"
       THEN /\ sendPc' = "awaitLastLog" /\ sendTag' = "STAFF_DOMAIN_FAIL"
            /\ UNCHANGED <<sendResult, otpCalls>>
       ELSE IF ~valid /\ fn # "verifyMagicLinkToken"
       THEN /\ sendPc' = "idle" /\ sendResult' = "invalid"
            /\ UNCHANGED <<sendTag, otpCalls>>
       ELSE /\ sendPc' = "awaitAuth" /\ otpCalls' = otpCalls + 1
            /\ UNCHANGED <<sendTag, sendResult>>
    /\ UNCHANGED <<backend, provider, views, guardVars, storeVars, geVars, anVars,
                   szVars, magicLinkEnabled, emailVerified>>

\* signInWithOtp or verifyOtp answers; an accepted token of identity i gives
\* the auth service a session.
SendAuthDone(outcome, i) ==
    /\ sendPc = "awaitAuth"
    /\ IF sendFn = "verifyMagicLinkToken" /\ outcome = "ok"
       THEN /\ Len(notifQ) < MaxQueue
            /\ authSess' = i
            /\ notifQ' = Append(notifQ, i)
       ELSE UNCHANGED <<authSess, notifQ>>
    /\ IF SendLogs(sendFn)
       THEN /\ sendPc' = IF outcome = "throw" THEN "awaitLastLog" ELSE "awaitLog"
            /\ sendTag' = IF outcome = "ok" THEN "MAGIC_LINK_SENT"
                          ELSE IF outcome = "error" THEN "MAGIC_LINK_FAIL"
                          ELSE "MAGIC_LINK_ERROR"
            /\ UNCHANGED sendResult
       ELSE /\ sendPc' = "idle"
            /\ sendResult' = IF outcome = "ok" THEN "sent" ELSE "failed"
            /\ UNCHANGED sendTag
    /\ UNCHANGED <<users, auditLog, config, lookups, extEvents, lastNotif, provider,
                   views, guardVars, storeVars, geVars, anVars, szVars,
                   magicLinkEnabled, emailVerified, sendFn, sendCalls, otpCalls>>

\* logAction of a send function is over; a rejection inside the try block
\* lands in the catch block, which logs MAGIC_LINK_ERROR.
SendLogDone(outcome) ==
    /\ sendPc \in {"awaitLog", "awaitLastLog"}
    /\ auditLog' = AppendLog(auditLog, users, authSess, sendTag, outcome)
    /\ IF outcome = "throw" /\ sendPc = "awaitLog"
       THEN /\ sendPc' = "awaitLastLog" /\ sendTag' = "MAGIC_LINK_ERROR"
            /\ UNCHANGED sendResult
       ELSE /\ sendPc' = "idle"
            /\ sendResult' = IF outcome = "throw" THEN "threw"
                             ELSE IF sendTag = "MAGIC_LINK_SENT" THEN "sent"
                             ELSE "failed"
            /\ UNCHANGED sendTag
    /\ UNCHANGED <<authSess, users, config, notifQ, lookups, extEvents, lastNotif,
                   provider, views, guardVars, storeVars, geVars, anVars, szVars,
                   magicLinkEnabled, emailVerified, sendFn, sendCalls, otpCalls>>

(***************************************************************************)
(* The password login of LoginPage, from a fresh page load with or without *)
(* a stored session, SUDO override configured for the address of u1.       *)
(***************************************************************************)
InitLogin ==
    /\ authSess \in Ids \cup {NoId}
    /\ users \in UserStores
    /\ schemaV2 = TRUE
    /\ sudoEnabled = TRUE
    /\ sudoEmail = <<"r", "t">>
    /\ InitQueues
    /\ InitPure
    /\ InitClient("/login")

NextLogin ==
    \/ InitSession
    \/ DeliverNotification
    \/ \E i \in Ids, failed \in BOOLEAN : LookupDone(i, failed)
    \/ TokenRefreshed
    \/ SessionInvalidated
    \/ \E i \in Ids : handleLogin(i)
    \/ SignInAuthError
    \/ SignInAuthOk
    \/ \E o \in RpcOutcomes : SignInLogDone(o)
    \/ LoginTimeout
    \/ OrphanTimeout

SpecLogin == InitLogin /\ [][NextLogin]_vars

(***************************************************************************)
(* The password form of LoginPageV2.                                       *)
(***************************************************************************)
InitV2 ==
    /\ authSess = NoId
    /\ users \in UserStores
    /\ schemaV2 = TRUE
    /\ sudoEnabled = FALSE
    /\ sudoEmail = NoEmail
    /\ InitQueues
    /\ InitPure
    /\ InitClient("/auth/v2/login")

NextV2 ==
    \/ InitSession
    \/ DeliverNotification
    \/ \E i \in Ids, failed \in BOOLEAN : LookupDone(i, failed)
    \/ \E i \in Ids : handlePasswordSubmit(i)
    \/ SignInAuthError
    \/ SignInAuthOk
    \/ \E o \in RpcOutcomes : SignInLogDone(o)

SpecV2 == InitV2 /\ [][NextV2]_vars

(***************************************************************************)
(* Logging out: the page loads on /dashboard with a stored session.        *)
(***************************************************************************)
InitLogout ==
    /\ authSess \in Ids
    /\ users \in UserStores
    /\ schemaV2 = TRUE
    /\ sudoEnabled = FALSE
    /\ sudoEmail = NoEmail
    /\ InitQueues
    /\ InitPure
    /\ InitClient("/dashboard")

NextLogout ==
    \/ InitSession
    \/ DeliverNotification
    \/ \E i \in Ids, failed \in BOOLEAN : LookupDone(i, failed)
    \/ TokenRefreshed
    \/ SessionInvalidated
    \/ SignOutCall
    \/ \E o \in RpcOutcomes : SignOutLogDone(o)
    \/ \E ok \in BOOLEAN : SignOutAuthDone(ok)

SpecLogout == InitLogout /\ [][NextLogout]_vars

(***************************************************************************)
(* Writing profiles: signUp and magic-link verification, with or without   *)
(* auth_upgrade_v2.sql applied, from a page load on /dashboard.            *)
(***************************************************************************)
InitRoles ==
    /\ authSess \in Ids \cup {NoId}
    /\ users \in UserStores
    /\ schemaV2 \in BOOLEAN
    /\ sudoEnabled = FALSE
    /\ sudoEmail = NoEmail
    /\ InitQueues
    /\ InitPure
    /\ InitClient("/dashboard")

NextRoles ==
    \/ InitSession
    \/ DeliverNotification
    \/ \E i \in Ids, failed \in BOOLEAN : LookupDone(i, failed)
    \/ \E i \in Ids, r \in RoleInputs : SignUpCall(i, r)
    \/ \E o \in {"error", "nouser", "user", "session"} : SignUpAuthDone(o)
    \/ SignUpInsertDone
    \/ \E o \in RpcOutcomes : SignUpLogDone(o)
    \/ \E i \in Ids, r \in RoleInputs \cup {NoRole}, valid \in BOOLEAN :
          MagicLinkOpen(i, r, valid)
    \/ \E failed \in BOOLEAN : MagicLinkSession(failed)
    \/ \E failed \in BOOLEAN : MagicLinkLookup(failed)
    \/ MagicLinkInsert
    \/ \E failed \in BOOLEAN : MagicLinkUpdate(failed)
    \/ \E o \in RpcOutcomes : MagicLinkLogDone(o)

SpecRoles == InitRoles /\ [][NextRoles]_vars

(***************************************************************************)
(* The magic-link paths with the feature flag on or off: the send          *)
(* functions and the /auth/v2/verify page, with or without a session in    *)
(* the browser, auth_upgrade_v2.sql applied.                               *)
(***************************************************************************)
\* emailRedirectTo of the send functions: ?role=STUDENT, ?role=STAFF, or none.
LinkRoles == {"STUDENT", "STAFF", NoRole}

InitMagicLink ==
    /\ authSess \in {NoId, "u1"}
    /\ users \in UserStores
    /\ schemaV2 = TRUE
    /\ sudoEnabled = FALSE
    /\ sudoEmail = NoEmail
    /\ InitQueues
    /\ gAllowed = {} /\ rbacV2Enabled = FALSE
    /\ prDecision = "none" /\ rbacDecision = "none"
    /\ InitStoreIdle /\ InitGeIdle /\ InitAnIdle /\ InitSzIdle
    /\ InitSendIdle
    /\ magicLinkEnabled \in BOOLEAN
    /\ InitClient("/dashboard")

NextMagicLink ==
    \/ InitSession
    \/ DeliverNotification
    \/ \E i \in Ids, failed \in BOOLEAN : LookupDone(i, failed)
    \/ \E i \in Ids, r \in LinkRoles, valid \in BOOLEAN :
          MagicLinkOpen(i, r, valid)
    \/ \E failed \in BOOLEAN : MagicLinkSession(failed)
    \/ \E failed \in BOOLEAN : MagicLinkLookup(failed)
    \/ MagicLinkInsert
    \/ \E failed \in BOOLEAN : MagicLinkUpdate(failed)
    \/ \E o \in RpcOutcomes : MagicLinkLogDone(o)
    \/ \E fn \in SendFns, valid \in BOOLEAN : sendMagicLinkCall(fn, valid)
    \/ \E o \in RpcOutcomes, i \in Ids : SendAuthDone(o, i)
    \/ \E o \in RpcOutcomes : SendLogDone(o)

SpecMagicLink == InitMagicLink /\ [][NextMagicLink]_vars

(***************************************************************************)
(* C1: after any sequence of role-writing operations no Profile in the     *)
(* store has role SUDO.                                                    *)
(***************************************************************************)
C1_NoSudoProfile == \A i \in Ids : users[i] # SUDO_ROLE

(***************************************************************************)
(* C2: with the SUDO feature enabled and an override address configured,   *)
(* whenever an identity whose email equals that address up to letter case  *)
(* and surrounding whitespace is authenticated, the role useAuth exposes   *)
(* is SUDO.                                                                *)
(***************************************************************************)
EqualUpToCaseAndSpace(a, b) == trim(toLowerCase(a)) = trim(toLowerCase(b))

C2_SudoRoleExposed ==
    (/\ sudoEnabled
     /\ sudoEmail # NoEmail
     /\ isAuthenticated(Client)
     /\ EqualUpToCaseAndSpace(Email(session), sudoEmail))
    => AuthRole(Client) = SUDO_ROLE

(***************************************************************************)
(* C3: a sign-in that ends in Verified-NoProfile emits no LOGIN event:     *)
(* once the sign-in of an identity has settled with a session and without  *)
(* a profile, the audit log holds no LOGIN row of that identity.           *)
(***************************************************************************)
C3_NoLoginEventWithoutProfile ==
    (/\ siPc = "idle" /\ siResult = "ok"
     /\ session = siId /\ user = NoProfile
     /\ notifQ = << >>
     /\ \A i \in Ids : lookups[i] = 0)
    => \A k \in 1..Len(auditLog) :
          ~(auditLog[k].action = "LOGIN" /\ auditLog[k].user_id = siId)

(***************************************************************************)
(* C4: a failed audit append is swallowed: whatever the outcome of the     *)
(* LOGOUT append, signOut goes on to the auth service's sign-out.          *)
(***************************************************************************)
C4_LogoutAuditFailureSwallowed ==
    [][(soPc = "awaitLog" /\ soPc' # "awaitLog") => soPc' = "awaitAuth"]_vars

(***************************************************************************)
(* C5: once a notification has delivered a null session, and until a       *)
(* notification delivers a session, the Session has no Identity, no        *)
(* Profile, a null role and isAuthenticated = false.                       *)
(***************************************************************************)
C5_NullNotificationAnonymous ==
    lastNotif = NoId =>
        /\ session = NoId
        /\ user = NoProfile
        /\ AuthRole(Client) = NoRole
        /\ ~isAuthenticated(Client)

(***************************************************************************)
(* C6: when verification has succeeded for a submission of the password    *)
(* form of LoginPageV2 and the profile lookup has come back empty, the     *)
(* form shows the no-profile error.                                        *)
(***************************************************************************)
C6_V2ShowsNoProfileError ==
    (/\ route = "/auth/v2/login"
     /\ siCaller = "LoginPageV2" /\ siResult = "ok" /\ ~v2Stale
     /\ session # NoId /\ user = NoProfile /\ ~isLoading
     /\ notifQ = << >>
     /\ \A i \in Ids : lookups[i] = 0)
    => v2Error = "noprofile"

(***************************************************************************)
(* C7: from the moment handleLogin submits the credentials the bounded     *)
(* wait is running: while LoginPage is in its loading state the login      *)
(* timer is pending.                                                       *)
(***************************************************************************)
C7_BoundedWaitRunning == lpLoading => timerPending

(***************************************************************************)
(* C8: when the login timeout has fired the Session is Anonymous, and as   *)
(* long as the credentials are not submitted again it stays Anonymous and  *)
(* LoginPage is not left.                                                  *)
(***************************************************************************)
C8_TimeoutIsFinal ==
    [][/\ lpError' = "timeout" => (session' = NoId /\ user' = NoProfile)
       /\ (lpError = "timeout" /\ logins' = logins) => route' = route]_vars

(***************************************************************************)
(* C9: when signIn gets an error from the auth service it returns the      *)
(* error to its caller, appends no audit event, leaves session and user    *)
(* as they were and has the loading flag back to false.                    *)
(***************************************************************************)
C9_SignInErrorFrame ==
    [][(siPc = "awaitAuth" /\ siPc' = "idle") =>
          /\ siResult' = "error"
          /\ (siCaller = "LoginPage" /\ ~hlStale) => lpError' = "cred"
          /\ auditLog' = auditLog
          /\ session' = session
          /\ user' = user
          /\ ~isLoading']_vars

\* A rejected sign-in has returned to LoginPage while a session without a
\* profile was held.
C9_Witness ==
    /\ siResult = "error" /\ lpError = "cred"
    /\ session # NoId /\ user = NoProfile
    /\ ~isLoading /\ auditLog = << >>

(***************************************************************************)
(* C10: signOut on an Authenticated session attempts the LOGOUT event      *)
(* first, then calls the auth service's sign-out, then clears the Session; *)
(* when it completes the Session has no Identity and no Profile.           *)
(***************************************************************************)
C10_LogoutOrder ==
    [][/\ (soPc = "idle" /\ soPc' # "idle" /\ isAuthenticated(Client)) =>
            (soPc' = "awaitLog" /\ session' = session /\ user' = user
             /\ authSess' = authSess)
       /\ (soPc = "awaitLog" /\ soPc' # "awaitLog") =>
            (session' = session /\ user' = user /\ authSess' = authSess)
       /\ (soPc = "awaitAuth" /\ soPc' = "idle") =>
            /\ session' = NoId /\ user' = NoProfile
            /\ soUser # NoProfile =>
                  soTrace' = <<"log_action", "auth.signOut", "clear">>]_vars

\* A signOut of an Authenticated session has completed with its LOGOUT row.
C10_Witness ==
    /\ soResult = "done" /\ soUser # NoProfile
    /\ Len(auditLog) = 1 /\ auditLog[1].action = "LOGOUT"
    /\ session = NoId /\ user = NoProfile /\ authSess = NoId

(***************************************************************************)
(* The two guards rendered on their own, for every value useAuth can       *)
(* expose, every allowedRoles prop and both settings of RBAC_V2.           *)
(***************************************************************************)
\* What useAuth can hold: no user, or a users row of one of the four roles.
AuthUsers == {NoProfile} \cup {Profile("u1", r) : r \in Role}

InitGuards ==
    /\ authSess = NoId
    /\ users = [i \in Ids |-> NoRole]
    /\ schemaV2 = TRUE
    /\ sudoEnabled = FALSE
    /\ sudoEmail = NoEmail
    /\ InitQueues
    /\ InitClient("/login")
    /\ gAllowed \in SUBSET Role
    /\ rbacV2Enabled \in BOOLEAN
    /\ prDecision = "none" /\ rbacDecision = "none"
    /\ InitIdle

\* The provider holds some session, user and loading flag.
ProviderHolds(s, u, l) ==
    /\ prDecision = "none" /\ rbacDecision = "none"
    /\ session' = s /\ user' = u /\ isLoading' = l
    /\ UNCHANGED <<backend, initPc, siVars, soVars, route, locFrom, lpError,
                   lpLoading, loginAttempted, loginTimeoutRef, timerPending,
                   orphanTimers, lpPc, hlStale, lpNavTarget, lpNavs, v2Error,
                   v2Loading, v2Pc, v2Stale, logins, suVars, mlVars, pureVars>>

RenderProtectedRoute ==
    /\ prDecision' = ProtectedRoute(isLoading, isAuthenticated(Client),
                                    AuthRole(Client), gAllowed)
    /\ UNCHANGED <<backend, provider, views, gAllowed, rbacV2Enabled, rbacDecision,
                   storeVars, geVars, anVars, szVars, v2Vars>>

RenderRBACGuard ==
    /\ rbacDecision' = RBACGuard(isLoading, isAuthenticated(Client),
                                 AuthRole(Client), gAllowed, rbacV2Enabled)
    /\ UNCHANGED <<backend, provider, views, gAllowed, rbacV2Enabled, prDecision,
                   storeVars, geVars, anVars, szVars, v2Vars>>

NextGuards ==
    \/ \E s \in {NoId, "u1"}, u \in AuthUsers, l \in BOOLEAN : ProviderHolds(s, u, l)
    \/ RenderProtectedRoute
    \/ RenderRBACGuard

SpecGuards == InitGuards /\ [][NextGuards]_vars

\* The session the guards are rendered for is Authenticated with role r.
GuardedAs(r) == ~isLoading /\ isAuthenticated(Client) /\ AuthRole(Client) = r

(***************************************************************************)
(* C11: both guards admit an Authenticated SUDO session on every route     *)
(* with a non-empty set of required roles, listed or not.                  *)
(***************************************************************************)
C11_SudoAdmitted ==
    (GuardedAs(SUDO_ROLE) /\ gAllowed # {}) =>
        /\ prDecision \in {"none", "render"}
        /\ rbacDecision \in {"none", "render"}

(***************************************************************************)
(* C12: both guards admit an Authenticated ADMIN session to a route with   *)
(* required roles exactly when the set holds one of STAFF, STUDENT, ADMIN. *)
(***************************************************************************)
C12_AdminActsAsPersistedRole ==
    (GuardedAs("ADMIN") /\ gAllowed # {}) =>
        LET admitted == IF gAllowed \cap PERSISTABLE_ROLES # {} THEN "render"
                        ELSE "denied"
        IN  /\ prDecision \in {"none", admitted}
            /\ rbacDecision \in {"none", admitted}

(***************************************************************************)
(* C13: under every flag setting both guards answer an Authenticated STAFF *)
(* or STUDENT session whose role is not among the required roles with the  *)
(* access-denied redirect.                                                 *)
(***************************************************************************)
C13_OutsiderDenied ==
    (/\ GuardedAs("STAFF") \/ GuardedAs("STUDENT")
     /\ gAllowed # {}
     /\ AuthRole(Client) \notin gAllowed) =>
        /\ prDecision \in {"none", "denied"}
        /\ rbacDecision \in {"none", "denied"}

(***************************************************************************)
(* A visitor opens a protected path without a stored session and signs in  *)
(* on the LoginPage the guard sends them to.                               *)
(***************************************************************************)
InitResume ==
    /\ authSess = NoId
    /\ users \in UserStores
    /\ schemaV2 = TRUE
    /\ sudoEnabled = FALSE
    /\ sudoEmail = NoEmail
    /\ InitQueues
    /\ InitPure
    /\ \E p \in ProtectedPaths : InitClient(p)

SpecResume == InitResume /\ [][NextLogin]_vars

(***************************************************************************)
(* C14: when the guard has sent a visitor from protected path P to the     *)
(* sign-in page and the visitor has signed in as STAFF or STUDENT, the     *)
(* navigation that leaves the sign-in page goes to P.                      *)
(***************************************************************************)
C14_ResumeRequestedPath ==
    [][(/\ route = "/login" /\ route' # "/login"
        /\ locFrom # NoPath
        /\ logins > 0
        /\ isAuthenticated(Client)' /\ AuthRole(Client)' \in {"STAFF", "STUDENT"})
       => lpNavTarget' = locFrom]_vars

(***************************************************************************)
(* Session restoration: the page loads on a protected path with a stored   *)
(* session, the auth service may announce that session again (or end it)   *)
(* while getSession() and the profile lookups are in flight.               *)
(***************************************************************************)
InitRestore ==
    /\ authSess \in Ids
    /\ users \in UserStores
    /\ schemaV2 = TRUE
    /\ sudoEnabled = FALSE
    /\ sudoEmail = NoEmail
    /\ InitQueues
    /\ InitPure
    /\ \E p \in ProtectedPaths : InitClient(p)

SpecRestore == InitRestore /\ [][NextLogin]_vars

(***************************************************************************)
(* C15: a guard redirects to the sign-in page only when no session exists  *)
(* or when the profile lookup has completed without a profile: never while *)
(* verification or a lookup for the held session is still in flight.       *)
(***************************************************************************)
C15_NoRedirectWhileResolving ==
    [][(route \in ProtectedPaths /\ route' = "/login") =>
          \/ session' = NoId
          \/ /\ user' = NoProfile
             /\ lookups'[session'] = 0
             /\ siPc' # "awaitAuth"]_vars

(***************************************************************************)
(* The tutorial store, the dashboard and the admin API                     *)
(***************************************************************************)
\* Row-level security of public.tutorials and public.audit_logs, and of
\* DELETE on public.users, for the caller auth.uid().  Policies of one
\* command are permissive: a row passes when any of them admits it.
tutorials_select_policy_AnyUser(v2, store, uid, target) == uid # NoId

tutorials_select_policy(v2, store, uid, target) ==
    /\ uid # NoId
    /\ \/ store[uid] = "ADMIN"
       \/ store[uid] = target
       \/ v2 /\ store[uid] = "SUDO"

tutorials_insert_policy(v2, store, uid) ==
    /\ uid # NoId
    /\ \/ store[uid] = "ADMIN"
       \/ v2 /\ store[uid] = "SUDO"

tutorials_delete_policy(v2, store, uid) ==
    /\ uid # NoId
    /\ \/ store[uid] = "ADMIN"
       \/ v2 /\ store[uid] = "SUDO"

users_delete_policy(v2, store, uid, id) ==
    /\ uid # NoId
    /\ \/ store[uid] = "ADMIN"
       \/ v2 /\ store[uid] = "SUDO" /\ id # uid

audit_logs_select_policy(v2, store, uid) ==
    /\ uid # NoId
    /\ \/ store[uid] = "ADMIN"
       \/ v2 /\ store[uid] = "SUDO"

\* audit_logs.user_id and tutorials.created_by reference users(id) without
\* an ON DELETE action: a referenced users row cannot be deleted.
users_referenced(log, tbl, id) ==
    \/ \E k \in 1..Len(log) : log[k].user_id = id
    \/ \E t \in TutIds : tbl[t] # NoTut /\ tbl[t].created_by = id

\* The tutorial ids the store returns to a select('*') of the caller.
tutorials_select(v2, store, uid, tbl) ==
    {t \in TutIds : /\ tbl[t] # NoTut
                    /\ tutorials_select_policy(v2, store, uid, tbl[t].target_role)}

\* useDashboard.refreshTutorials up to its await.
refreshTutorials ==
    /\ dashPc = "idle" /\ ops < MaxOps
    /\ ops' = ops + 1
    /\ dashLoading' = TRUE /\ dashError' = FALSE
    /\ dashPc' = "awaitSelect"
    /\ UNCHANGED <<backend, provider, views, guardVars, geVars, anVars, szVars, v2Vars,
                   tutorials, dashTutorials, opPc, opKind, opTarget, opStatus,
                   logsSeen>>

\* The select answers: an error keeps the list, data replaces it.
refreshTutorialsDone(failed) ==
    /\ dashPc = "awaitSelect"
    /\ IF failed
       THEN dashError' = TRUE /\ UNCHANGED dashTutorials
       ELSE /\ dashTutorials' = tutorials_select(schemaV2, users, authSess, tutorials)
            /\ UNCHANGED dashError
    /\ dashLoading' = FALSE
    /\ dashPc' = "idle"
    /\ UNCHANGED <<backend, provider, views, guardVars, geVars, anVars, szVars, v2Vars,
                   tutorials, opPc, opKind, opTarget, opStatus, logsSeen, ops>>

\* An API function up to its first await.
CallApi(kind, target) ==
    /\ opPc = "idle" /\ ops < MaxOps
    /\ ops' = ops + 1
    /\ opPc' = "awaitDb" /\ opKind' = kind /\ opTarget' = target
    /\ opStatus' = "none"
    /\ UNCHANGED <<backend, provider, views, guardVars, geVars, anVars, szVars, v2Vars,
                   tutorials, dashTutorials, dashError, dashLoading, dashPc,
                   logsSeen>>

\* What an API function leaves alone when the store answers.
ApiFrame ==
    UNCHANGED <<authSess, config, notifQ, lookups, extEvents, lastNotif,
                provider, views, guardVars, geVars, anVars, szVars, v2Vars, dashTutorials,
                dashError, dashLoading, dashPc, opKind, opTarget, ops>>

FreeTutIds == {t \in TutIds : tutorials[t] = NoTut}

createTutorial(target) ==
    /\ FreeTutIds # {}
    /\ CallApi("createTutorial", target)

createTutorialDone(failed) ==
    /\ opPc = "awaitDb" /\ opKind = "createTutorial"
    /\ IF failed
       THEN opStatus' = "failed" /\ opPc' = "idle" /\ UNCHANGED tutorials
       ELSE IF ~tutorials_insert_policy(schemaV2, users, authSess)
       THEN opStatus' = "denied" /\ opPc' = "idle" /\ UNCHANGED tutorials
       ELSE IF user.id # NoId /\ users[user.id] = NoRole
       THEN opStatus' = "fk" /\ opPc' = "idle" /\ UNCHANGED tutorials
       ELSE /\ tutorials' = [tutorials EXCEPT
                                ![CHOOSE t \in FreeTutIds : TRUE] =
                                    Tutorial(opTarget, user.id)]
            /\ opStatus' = "none" /\ opPc' = "awaitLog"
    /\ UNCHANGED <<users, auditLog, logsSeen>>
    /\ ApiFrame

deleteTutorial(t) ==
    /\ tutorials[t] # NoTut
    /\ CallApi("deleteTutorial", t)

\* A delete the policies do not admit removes no row and reports no error.
deleteTutorialDone(failed) ==
    /\ opPc = "awaitDb" /\ opKind = "deleteTutorial"
    /\ IF failed
       THEN opStatus' = "failed" /\ opPc' = "idle" /\ UNCHANGED tutorials
       ELSE /\ tutorials' =
                 IF tutorials_delete_policy(schemaV2, users, authSess)
                 THEN [tutorials EXCEPT ![opTarget] = NoTut]
                 ELSE tutorials
            /\ opStatus' = "none" /\ opPc' = "awaitLog"
    /\ UNCHANGED <<users, auditLog, logsSeen>>
    /\ ApiFrame

deleteUser(userId) ==
    /\ userId \in Ids
    /\ CallApi("deleteUser", userId)

deleteUserDone(failed) ==
    /\ opPc = "awaitDb" /\ opKind = "deleteUser"
    /\ IF failed
       THEN opStatus' = "failed" /\ opPc' = "idle" /\ UNCHANGED users
       ELSE IF /\ users[opTarget] # NoRole
               /\ users_delete_policy(schemaV2, users, authSess, opTarget)
       THEN IF users_referenced(auditLog, tutorials, opTarget)
            THEN opStatus' = "fk" /\ opPc' = "idle" /\ UNCHANGED users
            ELSE /\ users' = [users EXCEPT ![opTarget] = NoRole]
                 /\ opStatus' = "none" /\ opPc' = "awaitLog"
       ELSE opStatus' = "none" /\ opPc' = "awaitLog" /\ UNCHANGED users
    /\ UNCHANGED <<tutorials, auditLog, logsSeen>>
    /\ ApiFrame

fetchAuditLogs ==
    /\ opKind' = "fetchAuditLogs"
    /\ CallApi("fetchAuditLogs", "none")

fetchAuditLogsDone(failed) ==
    /\ opPc = "awaitDb" /\ opKind = "fetchAuditLogs"
    /\ IF failed
       THEN opStatus' = "failed" /\ logsSeen' = 0
       ELSE /\ opStatus' = "ok"
            /\ logsSeen' = IF audit_logs_select_policy(schemaV2, users, authSess)
                           THEN Len(auditLog) ELSE 0
    /\ opPc' = "idle"
    /\ UNCHANGED <<users, tutorials, auditLog>>
    /\ ApiFrame

\* UserManager.handleAddUser up to `await logAction('ADD_USER_ID', ...)`:
\* no write goes to the store before it.
handleAddUser ==
    /\ opPc = "idle" /\ ops < MaxOps
    /\ ops' = ops + 1
    /\ opPc' = "awaitLog" /\ opKind' = "handleAddUser" /\ opTarget' = "none"
    /\ opStatus' = "none"
    /\ UNCHANGED <<backend, provider, views, guardVars, geVars, anVars, szVars, v2Vars,
                   tutorials, dashTutorials, dashError, dashLoading, dashPc,
                   logsSeen>>

\* The action an API function or handler passes to logAction.
ApiAction(kind) ==
    IF kind = "createTutorial" THEN "CREATE_TUTORIAL"
    ELSE IF kind = "deleteTutorial" THEN "DELETE_TUTORIAL"
    ELSE IF kind = "handleAddUser" THEN "ADD_USER_ID"
    ELSE "DELETE_USER_ID"

\* await logAction(...) returns, or rejects, and the API function with it.
ApiLogDone(outcome) ==
    /\ opPc = "awaitLog"
    /\ auditLog' = AppendLog(auditLog, users, authSess, ApiAction(opKind), outcome)
    /\ opStatus' = IF outcome = "throw" THEN "threw" ELSE "ok"
    /\ opPc' = "idle"
    /\ UNCHANGED <<users, tutorials, logsSeen>>
    /\ ApiFrame

(***************************************************************************)
(* An Authenticated session on the dashboard, for every content of the     *)
(* tutorial store, with or without auth_upgrade_v2.sql and the SUDO        *)
(* override of u1's address.                                               *)
(***************************************************************************)
StoreUsers(v2) ==
    {[i \in Ids |-> IF i = "u1" THEN r ELSE q] :
        r \in (IF v2 THEN Role ELSE PERSISTABLE_ROLES), q \in {NoRole, "STUDENT"}}

InitStore ==
    /\ schemaV2 \in BOOLEAN
    /\ sudoEnabled \in BOOLEAN
    /\ sudoEmail = <<"r", "t">>
    /\ users \in StoreUsers(schemaV2)
    /\ authSess \in {i \in Ids : users[i] # NoRole}
    /\ auditLog \in {<< >>, <<log_action(users, authSess, "LOGIN")>>}
    /\ notifQ = << >>
    /\ lookups = [i \in Ids |-> 0]
    /\ extEvents = 0
    /\ lastNotif = "never"
    /\ session = authSess
    /\ user = Profile(authSess, users[authSess])
    /\ isLoading = FALSE
    /\ initPc = "done"
    /\ InitViews("/dashboard")
    /\ gAllowed = {} /\ rbacV2Enabled = FALSE
    /\ prDecision = "none" /\ rbacDecision = "none"
    /\ tutorials \in [TutIds -> {NoTut, Tutorial("STAFF", NoId), Tutorial("STUDENT", NoId)}]
    /\ dashTutorials = {} /\ dashError = FALSE /\ dashLoading = TRUE
    /\ dashPc = "idle"
    /\ opPc = "idle" /\ opKind = "none" /\ opTarget = "none"
    /\ opStatus = "none" /\ logsSeen = 0 /\ ops = 0
    /\ argDbRole = NoRole /\ argUserEmail = NoEmail /\ effectiveRole = "unset"
    /\ anRole = NoRole /\ anResult = "none" /\ anRpc = 0 /\ anCalls = 0
    /\ InitSzIdle
    /\ InitSendIdle /\ InitFlagsDefault

NextStore ==
    \/ refreshTutorials
    \/ \E failed \in BOOLEAN : refreshTutorialsDone(failed)
    \/ \E r \in {"STAFF", "STUDENT"} : createTutorial(r)
    \/ \E failed \in BOOLEAN : createTutorialDone(failed)
    \/ \E t \in TutIds : deleteTutorial(t)
    \/ \E failed \in BOOLEAN : deleteTutorialDone(failed)
    \/ \E i \in Ids : deleteUser(i)
    \/ \E failed \in BOOLEAN : deleteUserDone(failed)
    \/ fetchAuditLogs
    \/ \E failed \in BOOLEAN : fetchAuditLogsDone(failed)
    \/ handleAddUser
    \/ \E o \in RpcOutcomes : ApiLogDone(o)

SpecStore == InitStore /\ [][NextStore]_vars

(***************************************************************************)
(* C16: for every content of the tutorial store, the tutorials a completed *)
(* fetch surfaces to a STAFF or STUDENT session are exactly the rows whose *)
(* target role is the session's role.                                      *)
(***************************************************************************)
C16_SurfacedByTargetRole ==
    [][(/\ dashPc = "awaitSelect" /\ dashPc' = "idle" /\ ~dashError'
        /\ user.role \in {"STAFF", "STUDENT"})
       => dashTutorials' = {t \in TutIds : /\ tutorials[t] # NoTut
                                           /\ tutorials[t].target_role = user.role}]_vars

\* A STUDENT session has fetched from a store holding a STAFF-targeted and a
\* STUDENT-targeted tutorial, and holds the STUDENT-targeted one alone.
C16_Witness ==
    /\ user.role = "STUDENT" /\ ~dashLoading /\ ~dashError /\ dashPc = "idle"
    /\ \E t \in TutIds : tutorials[t] # NoTut /\ tutorials[t].target_role = "STAFF"
    /\ \E t \in TutIds : /\ tutorials[t] # NoTut
                         /\ tutorials[t].target_role = "STUDENT"
                         /\ dashTutorials = {t}

(***************************************************************************)
(* C17: a session whose effective role is SUDO is allowed every operation  *)
(* an ADMIN is allowed (it reads all tutorials and the whole audit log,    *)
(* creates and deletes tutorials, deletes any other profile nothing        *)
(* references) and is never allowed to delete its own profile.             *)
(***************************************************************************)
EffectiveSudo ==
    /\ authSess # NoId
    /\ getEffectiveRole(sudoEnabled, sudoEmail, users[authSess], Email(authSess))
          = SUDO_ROLE

C17_SudoActsAsAdmin ==
    [][EffectiveSudo =>
         /\ (dashPc = "awaitSelect" /\ dashPc' = "idle" /\ ~dashError') =>
               dashTutorials' = {t \in TutIds : tutorials[t] # NoTut}
         /\ (opPc = "awaitDb" /\ opPc' # "awaitDb" /\ opStatus' # "failed") =>
               /\ opKind = "createTutorial" => tutorials' # tutorials
               /\ opKind = "deleteTutorial" => tutorials'[opTarget] = NoTut
               /\ opKind = "fetchAuditLogs" => logsSeen' = Len(auditLog)
               /\ (opKind = "deleteUser" /\ opTarget # authSess /\ opStatus' # "fk")
                     => users'[opTarget] = NoRole
               /\ (opKind = "deleteUser" /\ opTarget = authSess)
                     => users' = users]_vars

Chars == {"R", "r", "s", " "}
Emails == UNION {[1..n -> Chars] : n \in 0..MaxEmailLen}

InitEffectiveRole ==
    /\ authSess = NoId
    /\ users = [i \in Ids |-> NoRole]
    /\ schemaV2 = TRUE
    /\ sudoEnabled \in BOOLEAN
    /\ sudoEmail \in Emails
    /\ InitQueues
    /\ InitClient("/login")
    /\ gAllowed = {} /\ rbacV2Enabled = FALSE
    /\ prDecision = "none" /\ rbacDecision = "none"
    /\ InitStoreIdle
    /\ argDbRole \in PERSISTABLE_ROLES \cup {NoRole}
    /\ argUserEmail \in Emails
    /\ effectiveRole = "unset"
    /\ InitAnIdle
    /\ InitSzIdle
    /\ InitSendIdle /\ InitFlagsDefault

CallGetEffectiveRole ==
    /\ effectiveRole' = getEffectiveRole(sudoEnabled, sudoEmail, argDbRole, argUserEmail)
    /\ UNCHANGED <<backend, provider, views, guardVars, storeVars, anVars, szVars, v2Vars,
                   argDbRole, argUserEmail>>

NextEffectiveRole == CallGetEffectiveRole

SpecEffectiveRole == InitEffectiveRole /\ [][NextEffectiveRole]_vars

(***************************************************************************)
(* C19: getEffectiveRole returns SUDO when the feature is enabled, an      *)
(* override address is configured, an email is given and the two are equal *)
(* once surrounding spaces are dropped and case is ignored; in every other *)
(* case it returns the profile's role, null when there is none.            *)
(***************************************************************************)
NonSpace(s) == {k \in 1..Len(s) : s[k] # " "}
Core(s) ==
    IF NonSpace(s) = {} THEN << >>
    ELSE SubSeq(s, CHOOSE k \in NonSpace(s) : \A j \in NonSpace(s) : k <= j,
                   CHOOSE k \in NonSpace(s) : \A j \in NonSpace(s) : k >= j)
SameIgnoringCase(a, b) ==
    /\ Len(a) = Len(b)
    /\ \A k \in 1..Len(a) : toLowerCaseChar(a[k]) = toLowerCaseChar(b[k])

C19_EffectiveRole ==
    effectiveRole # "unset" =>
        effectiveRole =
            IF /\ sudoEnabled
               /\ sudoEmail # NoEmail
               /\ argUserEmail # NoEmail
               /\ SameIgnoringCase(Core(argUserEmail), Core(sudoEmail))
            THEN SUDO_ROLE
            ELSE argDbRole

\* SUDO was returned for an address that differs from the override in case
\* and surrounding spaces, over a persisted STAFF role.
C19_Witness ==
    /\ effectiveRole = SUDO_ROLE
    /\ argDbRole = "STAFF"
    /\ sudoEmail = <<"r">>
    /\ argUserEmail = <<"R", " ">>

(***************************************************************************)
(* assertNotSudoForPersistence called on its own, by any session, with any *)
(* role; the log_action call it starts answers later.                      *)
(***************************************************************************)
assertNotSudoForPersistence_throws_Never(role) == FALSE

\* Whether the guard throws for the role.
assertNotSudoForPersistence_throws(role) == role = SUDO_ROLE

assertNotSudoForPersistence(role) ==
    /\ anCalls < MaxGuardCalls
    /\ anCalls' = anCalls + 1
    /\ anRole' = role
    /\ IF assertNotSudoForPersistence_throws(role)
       THEN anRpc' = anRpc + 1 /\ anResult' = "throws"
       ELSE anRpc' = anRpc /\ anResult' = "returns"
    /\ UNCHANGED <<backend, provider, views, guardVars, storeVars, geVars, szVars, v2Vars>>

\* The rpc answers: a row, an error result the callback prints, or a
\* rejection nothing handles.
AssertLogDone(outcome) ==
    /\ anRpc > 0
    /\ anRpc' = anRpc - 1
    /\ auditLog' = AppendLog(auditLog, users, authSess,
                             "SUDO_PERSISTENCE_BLOCKED", outcome)
    /\ UNCHANGED <<authSess, users, config, notifQ, lookups, extEvents, lastNotif,
                   provider, views, guardVars, storeVars, geVars, szVars, v2Vars,
                   anRole, anResult, anCalls>>

InitAssert ==
    /\ authSess \in Ids \cup {NoId}
    /\ users \in UserStores
    /\ schemaV2 \in BOOLEAN
    /\ sudoEnabled \in BOOLEAN
    /\ sudoEmail = <<"r", "t">>
    /\ InitQueues
    /\ InitClient("/login")
    /\ InitPure

\* The roles, strings that are no role, the empty string and null.
SanitizeInputs == Role \cup {"GUEST", "sudo", "Admin", " STAFF", "", NoRole}

CallSanitizeRoleForPersistence(role) ==
    /\ szRole' = role
    /\ szResult' = sanitizeRoleForPersistence(role)
    /\ UNCHANGED <<backend, provider, views, guardVars, storeVars, geVars, anVars,
                   v2Vars>>

NextAssert ==
    \/ \E r \in RoleInputs \cup {NoRole} : assertNotSudoForPersistence(r)
    \/ \E o \in RpcOutcomes : AssertLogDone(o)
    \/ \E r \in SanitizeInputs : CallSanitizeRoleForPersistence(r)

SpecAssert == InitAssert /\ [][NextAssert]_vars

(***************************************************************************)
(* C20: called with SUDO the guard raises and starts one                   *)
(* SUDO_PERSISTENCE_BLOCKED append, and no answer of that append undoes    *)
(* the raise; called with STAFF, STUDENT or ADMIN it returns, starts no    *)
(* append and writes no row.                                               *)
(***************************************************************************)
C20_GuardRaisesForSudo ==
    [][/\ (anCalls' = anCalls + 1 /\ anRole' = SUDO_ROLE) =>
             /\ anResult' = "throws"
             /\ anRpc' = anRpc + 1
       /\ (anCalls' = anCalls + 1 /\ anRole' \in PERSISTABLE_ROLES) =>
             /\ anResult' = "returns"
             /\ anRpc' = anRpc
             /\ auditLog' = auditLog
       /\ (anRpc' < anRpc) =>
             /\ anResult' = anResult
             /\ Len(auditLog') <= Len(auditLog) + 1
             /\ \A k \in 1..Len(auditLog') :
                   k > Len(auditLog) => auditLog'[k].action = "SUDO_PERSISTENCE_BLOCKED"]_vars

\* The guard has raised for SUDO and its append has failed.
C20_Witness ==
    /\ anRole = SUDO_ROLE /\ anResult = "throws"
    /\ anCalls = 1 /\ anRpc = 0
    /\ auditLog = << >>

(***************************************************************************)
(* C21: sanitizeRoleForPersistence returns STAFF, STUDENT and ADMIN        *)
(* unchanged and null for SUDO and for every other input, so its result is *)
(* always one of the three persisted roles or null.                        *)
(***************************************************************************)
C21_SanitizedRole ==
    szResult # "unset" =>
        /\ szResult = IF szRole \in {"STAFF", "STUDENT", "ADMIN"} THEN szRole ELSE NoRole
        /\ szResult \in {"STAFF", "STUDENT", "ADMIN", NoRole}

\* SUDO has been sanitized to null.
C21_Witness == szRole = SUDO_ROLE /\ szResult = NoRole

(***************************************************************************)
(* C22: once getSession has reported that there is no session, and while   *)
(* no notification and no sign-in is under way, the provider reports       *)
(* isLoading false, user null, role null and isAuthenticated false.        *)
(***************************************************************************)
C22_InitialNullState ==
    (/\ initPc = "done" /\ authSess = NoId
     /\ lastNotif = "never" /\ notifQ = << >>
     /\ siPc = "idle")
    => /\ ~isLoading
       /\ user = NoProfile
       /\ AuthRole(Client) = NoRole
       /\ ~isAuthenticated(Client)

\* getSession has reported no session on a freshly mounted provider.
C22_Witness ==
    /\ initPc = "done" /\ authSess = NoId /\ logins = 0
    /\ lastNotif = "never" /\ notifQ = << >>
    /\ ~isLoading /\ session = NoId /\ user = NoProfile

(***************************************************************************)
(* C23: the Profile the provider holds is the one of the session's         *)
(* Identity: whenever the session is Authenticated, the Profile's id is    *)
(* the session Identity's id.                                              *)
(***************************************************************************)
C23_ProfileOfSessionIdentity ==
    isAuthenticated(Client) => user.id = session

(***************************************************************************)
(* C24: once the login attempt is Authenticated or LoginPage has been torn *)
(* down, no login timer is pending, whether of the mounted LoginPage or of *)
(* an instance that is gone.                                               *)
(***************************************************************************)
C24_NoTimerAfterTerminal ==
    (route # "/login" \/ isAuthenticated(Client))
    => (~timerPending /\ orphanTimers = 0)

\* C25: for one successful sign-in exactly one login event is emitted,
\* however often the verified outcome is applied: the audit log changes only
\* on the step that ends signIn's own logAction call, by one LOGIN row of
\* the signed-in identity, a session is established only by the step that
\* issues that call, and no notification or lookup appends anything.
C25_OneLoginEvent ==
    [][/\ auditLog' # auditLog =>
            /\ siPc = "awaitLog" /\ siPc' = "idle"
            /\ auditLog' = Append(auditLog, log_action(users, siId, "LOGIN"))
       /\ (authSess' # authSess /\ authSess' # NoId) =>
            /\ siPc = "awaitAuth" /\ siPc' = "awaitLog"
            /\ authSess' = siId]_vars

\* The verified outcome was applied by the caller and by a notification,
\* the profile is loaded, and the log holds the one LOGIN row.
C25_Witness ==
    /\ siPc = "idle" /\ siResult = "ok"
    /\ lastNotif # "never" /\ notifQ = << >>
    /\ isAuthenticated(Client) /\ session = siId
    /\ Len(auditLog) = 1 /\ auditLog[1].action = "LOGIN"

\* C26: for one successful sign-in the login view that handled it issues
\* exactly one redirect: since the form was last submitted, the post-login
\* effect and the already-authenticated effect of LoginPage have called
\* navigate at most once in total.
C26_OneRedirect == lpNavs <= 1

\* C27: LoginPage shows the profile-not-configured error only after the
\* profile lookup of the verified identity has completed without a profile:
\* on the step that puts the error on the page no lookup for the session's
\* identity is in flight.
C27_ErrorAfterLookup ==
    [][(lpError # "noprofile" /\ lpError' = "noprofile")
       => (session' # NoId /\ lookups'[session'] = 0)]_vars

\* C28: with the magic-link flag off no v2 auth path has an effect on the
\* external services: the four send and verify-token functions answer with
\* a failure without calling the auth service, and no step, the steps of
\* the /auth/v2/verify page included, inserts or updates a Profile.
C28_FlagOffNoEffect ==
    [][~magicLinkEnabled =>
         /\ otpCalls' = otpCalls
         /\ sendCalls' # sendCalls =>
               (sendPc' = "idle" /\ sendResult' = "unavailable")
         /\ users' = users
         /\ emailVerified' = emailVerified]_vars

MutationTags == {"CREATE_TUTORIAL", "UPDATE_TUTORIAL", "DELETE_TUTORIAL",
                 "DELETE_USER_ID", "ADD_USER_ID"}

\* C30: an audit event with a mutation action tag is recorded if and only
\* if the corresponding store mutation was issued and the store reported
\* success: a step appends such a row exactly when it ends the logAction
\* call of a function whose write the store has just accepted.
C30_MutationEventIffSuccess ==
    [][LET recorded == /\ Len(auditLog') = Len(auditLog) + 1
                       /\ auditLog'[Len(auditLog')].action \in MutationTags
           succeeded == /\ opPc = "awaitLog" /\ opPc' = "idle"
                        /\ opKind \in {"createTutorial", "deleteTutorial",
                                       "deleteUser"}
       IN  recorded <=> succeeded]_vars

====
